---------------------------- MODULE Spec2Model ----------------------------
(***************************************************************************)
(* CircuitBreaker (src/src/circuit_breaker/circuit_breaker.py).            *)
(*                                                                         *)
(* One breaker instance, used from one thread.  The clock `now` stands for *)
(* time.time() and is counted in whole seconds; the configuration is       *)
(* chosen at construction and never written again.  random.randint is a    *)
(* nondeterministic choice, so the recovery-timeout calculation is the set *)
(* of values it can return.                                                *)
(***************************************************************************)
EXTENDS Integers, FiniteSets, Sequences, TLC

VARIABLES
  failure_threshold,          \* configuration, __init__
  base_interval_minutes,
  fixed_interval_retries,
  max_exponential_retries,
  jitter_enabled,
  failure_count,              \* breaker fields
  consecutive_circuit_breaks,
  last_failure_time,
  state,
  now,                        \* time.time()
  result,                     \* how the call() made in this step ended
  invocations,                \* number of times func has been invoked
  invoked_in,                 \* self.state when func was invoked in this step
  func_result,                \* what func did when invoked in this step
  checked_timeout,            \* timeout drawn by _should_attempt_reset in this step
  consecutive_failures,       \* failed invocations since the last successful one
  computed,                   \* value returned to a direct caller of the timeout calculation in this step
  status,                     \* the snapshot get_status_info returned in this step
  script_pos,                 \* number of calls of the end-to-end scenario made so far
  pc                          \* where each caller stands inside call()

config == <<failure_threshold, base_interval_minutes, fixed_interval_retries,
            max_exponential_retries, jitter_enabled>>
breaker == <<failure_count, consecutive_circuit_breaks, last_failure_time, state>>
observed == <<result, invocations, invoked_in, func_result, checked_timeout,
              consecutive_failures, computed, status>>
vars == <<config, breaker, now, observed, script_pos, pc>>

----------------------------------------------------------------------------
(* Bounds of the model. *)

MaxThreshold == 2
MaxBaseInterval == 2
MaxFixedRetries == 1
MaxExponentialRetries == 1
MaxInvocations == 4
MaxClockMinutes == 8

(* Bound of the exponential-phase specification. *)
ExpMaxExponentialRetries == 5

(* Bounds of the timeout-calculation specification. *)
CalcMaxBaseInterval == 4
CalcMaxFixedRetries == 2
CalcMaxExponentialRetries == 3
CalcMaxBreaks == 7

TickSteps == {60}

----------------------------------------------------------------------------
(* Values. *)

CLOSED == "closed"
OPEN == "open"
HALF_OPEN == "half_open"
CircuitBreakerState == {CLOSED, OPEN, HALF_OPEN}

None == -1
DefaultBaseInterval == 5
SecondsPerMinute == 60

\* What a wrapped function does when invoked: return a value or raise an error.
Funcs == [raises : {FALSE}, payload : {"r1", "r2"}]
           \cup [raises : {TRUE}, payload : {"ValueError", "RuntimeError"}]

NoCall == [kind |-> "none", payload |-> "", minutes |-> None]
Returned(v) == [kind |-> "returned", payload |-> v, minutes |-> None]
Raised(e) == [kind |-> "raised", payload |-> e, minutes |-> None]
NotInvoked == ""

\* No snapshot was taken in this step.
NoStatus == [state |-> "", failure_count |-> None, consecutive_circuit_breaks |-> None,
             retry_phase |-> [label |-> "", attempt |-> None, of |-> None],
             current_recovery_timeout_minutes |-> None,
             time_until_retry_minutes |-> None,
             config |-> <<>>]

\* The callers of the breaker; one unless stated otherwise.
OneCaller == {"c1"}
TwoCallers == {"c1", "c2"}
\* Where a caller stands: outside call(), past the check of lines 39-46, or
\* inside func (line 49), with self.state as it was when the caller left
\* the check.
AtIdle == [at |-> "idle", state |-> ""]
AtAdmitted(st) == [at |-> "admitted", state |-> st]
AtRunning(st) == [at |-> "running", state |-> st]
Idle(callers) == [c \in callers |-> AtIdle]
CircuitOpenError(m) ==
  [kind |-> "raised", payload |-> "Circuit breaker is OPEN", minutes |-> m]
IsCircuitOpenError(r) == r.kind = "raised" /\ r.payload = "Circuit breaker is OPEN"

Max(a, b) == IF a >= b THEN a ELSE b
Min(a, b) == IF a <= b THEN a ELSE b

RECURSIVE Pow(_, _)
Pow(b, e) == IF e <= 0 THEN 1 ELSE b * Pow(b, e - 1)

----------------------------------------------------------------------------
(* _get_current_recovery_timeout_minutes *)

\* Mutant: the timeout is the power alone, without the factor in front.
timeout_minutes_power_only(k) ==
  IF k <= fixed_interval_retries
    THEN base_interval_minutes
    ELSE LET exponential_attempt ==
               IF k - fixed_interval_retries > max_exponential_retries
                 THEN max_exponential_retries
                 ELSE k - fixed_interval_retries
         IN  Pow(base_interval_minutes, exponential_attempt)

\* Mutant: the cap on exponential_attempt is lost.
timeout_minutes_uncapped(k) ==
  IF k <= fixed_interval_retries
    THEN base_interval_minutes
    ELSE base_interval_minutes * Pow(base_interval_minutes, k - fixed_interval_retries)

\* Mutant: past the cap the exponential attempt starts again from 0.
timeout_minutes_wrapping(k) ==
  IF k <= fixed_interval_retries
    THEN base_interval_minutes
    ELSE LET exponential_attempt ==
               (k - fixed_interval_retries) % (max_exponential_retries + 1)
         IN  base_interval_minutes * Pow(base_interval_minutes, exponential_attempt)

\* The local timeout_minutes before jitter, for k >= 1 circuit breaks.
timeout_minutes(k) ==
  IF k <= fixed_interval_retries
    THEN base_interval_minutes
    ELSE LET exponential_attempt ==
               IF k - fixed_interval_retries > max_exponential_retries
                 THEN max_exponential_retries
                 ELSE k - fixed_interval_retries
         IN  base_interval_minutes * Pow(base_interval_minutes, exponential_attempt)

\* Mutant: a jitter of 20% instead of 10%.
jitter_range_wide(t) == Max(1, t \div 5)

\* int(timeout_minutes * 0.1) truncates; for naturals that is division by 10.
jitter_range(t) == Max(1, t \div 10)

\* Every value the calculation can return with k circuit breaks.
get_current_recovery_timeout_minutes(k) ==
  IF k = 0
    THEN {base_interval_minutes}
    ELSE IF jitter_enabled
      THEN {Max(1, timeout_minutes(k) + jitter) :
              jitter \in (0 - jitter_range(timeout_minutes(k))) .. jitter_range(timeout_minutes(k))}
      ELSE {timeout_minutes(k)}

----------------------------------------------------------------------------
(* _should_attempt_reset, _on_success, _on_failure *)

\* Mutant: the timeout is compared in minutes against seconds elapsed.
should_attempt_reset_no_conversion(current_timeout) ==
  \/ last_failure_time = None
  \/ now - last_failure_time >= current_timeout

\* Mutant: the timeout must be strictly exceeded.
should_attempt_reset_strict(current_timeout) ==
  \/ last_failure_time = None
  \/ now - last_failure_time > current_timeout * SecondsPerMinute

\* Mutant: the elapsed time is taken with the wrong sign.
should_attempt_reset_reversed(current_timeout) ==
  \/ last_failure_time = None
  \/ last_failure_time - now >= current_timeout * SecondsPerMinute

\* current_timeout is the value the timeout calculation returned to it.
should_attempt_reset(current_timeout) ==
  \/ last_failure_time = None
  \/ now - last_failure_time >= current_timeout * SecondsPerMinute

\* Mutant: the consecutive circuit breaks survive a success.
on_success_keeps_breaks ==
  [failure_count |-> 0,
   consecutive_circuit_breaks |-> consecutive_circuit_breaks,
   last_failure_time |-> last_failure_time,
   state |-> CLOSED]

on_success ==
  [failure_count |-> 0,
   consecutive_circuit_breaks |-> 0,
   last_failure_time |-> last_failure_time,
   state |-> CLOSED]

\* Mutant: the threshold must be exceeded, not reached.
on_failure_exceeds(st) ==
  LET count == failure_count + 1 IN
  IF count > failure_threshold
    THEN [failure_count |-> count,
          consecutive_circuit_breaks |->
            IF st = HALF_OPEN THEN consecutive_circuit_breaks + 1 ELSE 1,
          last_failure_time |-> now,
          state |-> OPEN]
    ELSE [failure_count |-> count,
          consecutive_circuit_breaks |-> consecutive_circuit_breaks,
          last_failure_time |-> now,
          state |-> st]

\* Mutant: a failed trial restarts the count of circuit breaks at 1.
on_failure_restarts(st) ==
  LET count == failure_count + 1 IN
  IF count >= failure_threshold
    THEN [failure_count |-> count,
          consecutive_circuit_breaks |-> 1,
          last_failure_time |-> now,
          state |-> OPEN]
    ELSE [failure_count |-> count,
          consecutive_circuit_breaks |-> consecutive_circuit_breaks,
          last_failure_time |-> now,
          state |-> st]

\* Mutant: opening the circuit starts the failure count afresh.
on_failure_resets_count(st) ==
  LET count == failure_count + 1 IN
  IF count >= failure_threshold
    THEN [failure_count |-> 0,
          consecutive_circuit_breaks |->
            IF st = HALF_OPEN THEN consecutive_circuit_breaks + 1 ELSE 1,
          last_failure_time |-> now,
          state |-> OPEN]
    ELSE [failure_count |-> count,
          consecutive_circuit_breaks |-> consecutive_circuit_breaks,
          last_failure_time |-> now,
          state |-> st]

\* Mutant: the time of the failure is recorded only when the circuit opens.
on_failure_stale_time(st) ==
  LET count == failure_count + 1 IN
  IF count >= failure_threshold
    THEN [failure_count |-> count,
          consecutive_circuit_breaks |->
            IF st = HALF_OPEN THEN consecutive_circuit_breaks + 1 ELSE 1,
          last_failure_time |-> now,
          state |-> OPEN]
    ELSE [failure_count |-> count,
          consecutive_circuit_breaks |-> consecutive_circuit_breaks,
          last_failure_time |-> last_failure_time,
          state |-> st]

\* Mutant: only a failed trial counts as a circuit break.
on_failure_first_break_uncounted(st) ==
  LET count == failure_count + 1 IN
  IF count >= failure_threshold
    THEN [failure_count |-> count,
          consecutive_circuit_breaks |->
            IF st = HALF_OPEN THEN consecutive_circuit_breaks + 1
                              ELSE consecutive_circuit_breaks,
          last_failure_time |-> now,
          state |-> OPEN]
    ELSE [failure_count |-> count,
          consecutive_circuit_breaks |-> consecutive_circuit_breaks,
          last_failure_time |-> now,
          state |-> st]

\* st is self.state when the function raised.
on_failure(st) ==
  LET count == failure_count + 1 IN
  IF count >= failure_threshold
    THEN [failure_count |-> count,
          consecutive_circuit_breaks |->
            IF st = HALF_OPEN THEN consecutive_circuit_breaks + 1 ELSE 1,
          last_failure_time |-> now,
          state |-> OPEN]
    ELSE [failure_count |-> count,
          consecutive_circuit_breaks |-> consecutive_circuit_breaks,
          last_failure_time |-> now,
          state |-> st]

----------------------------------------------------------------------------
(* call *)

\* The message of the circuit-open error: the value formatted into it.
open_error_minutes(recomputed_timeout) == recomputed_timeout

\* Mutant: the error of the function is replaced by one of the breaker.
reraise_wrapped(e) == Raised("CircuitBreakerError")

\* except Exception as e: ... raise e
reraise(e) == Raised(e)

\* Mutant: an elapsed timeout closes the circuit at once.
attempt_reset_state_closed == CLOSED

\* self.state = CircuitBreakerState.HALF_OPEN, line 41
attempt_reset_state == HALF_OPEN

SetBreaker(b) ==
  /\ failure_count' = b.failure_count
  /\ consecutive_circuit_breaks' = b.consecutive_circuit_breaks
  /\ last_failure_time' = b.last_failure_time
  /\ state' = b.state

\* Mutant: a rejected call is recorded as a failure time.
call_rejection_recorded(func, reset_timeout, message_timeout) ==
  LET rejected == state = OPEN /\ ~should_attempt_reset(reset_timeout)
      st == IF state = OPEN THEN attempt_reset_state ELSE state
  IN
  /\ checked_timeout' =
       IF state = OPEN /\ last_failure_time # None THEN reset_timeout ELSE None
  /\ IF rejected
       THEN /\ result' = CircuitOpenError(open_error_minutes(message_timeout))
            /\ invoked_in' = NotInvoked
            /\ func_result' = NoCall
            /\ last_failure_time' = now
            /\ UNCHANGED <<failure_count, consecutive_circuit_breaks, state,
                           invocations, consecutive_failures>>
       ELSE /\ invocations' = invocations + 1
            /\ invoked_in' = st
            /\ IF func.raises
                 THEN /\ func_result' = Raised(func.payload)
                      /\ SetBreaker(on_failure(st))
                      /\ consecutive_failures' = consecutive_failures + 1
                      /\ result' = reraise(func.payload)
                 ELSE /\ func_result' = Returned(func.payload)
                      /\ SetBreaker(on_success)
                      /\ consecutive_failures' = 0
                      /\ result' = Returned(func.payload)
  /\ status' = NoStatus
  /\ computed' = None
  /\ UNCHANGED <<config, now, pc>>

call(func, reset_timeout, message_timeout) ==
  LET rejected == state = OPEN /\ ~should_attempt_reset(reset_timeout)
      st == IF state = OPEN THEN attempt_reset_state ELSE state
  IN
  /\ checked_timeout' =
       IF state = OPEN /\ last_failure_time # None THEN reset_timeout ELSE None
  /\ IF rejected
       THEN /\ result' = CircuitOpenError(open_error_minutes(message_timeout))
            /\ invoked_in' = NotInvoked
            /\ func_result' = NoCall
            /\ UNCHANGED <<breaker, invocations, consecutive_failures>>
       ELSE /\ invocations' = invocations + 1
            /\ invoked_in' = st
            /\ IF func.raises
                 THEN /\ func_result' = Raised(func.payload)
                      /\ SetBreaker(on_failure(st))
                      /\ consecutive_failures' = consecutive_failures + 1
                      /\ result' = reraise(func.payload)
                 ELSE /\ func_result' = Returned(func.payload)
                      /\ SetBreaker(on_success)
                      /\ consecutive_failures' = 0
                      /\ result' = Returned(func.payload)
  /\ status' = NoStatus
  /\ computed' = None
  /\ UNCHANGED <<config, now, pc>>

Call ==
  /\ invocations < MaxInvocations
  /\ \E func \in Funcs :
       \E reset_timeout \in get_current_recovery_timeout_minutes(consecutive_circuit_breaks) :
         \E message_timeout \in get_current_recovery_timeout_minutes(consecutive_circuit_breaks) :
           call(func, reset_timeout, message_timeout)
  /\ UNCHANGED script_pos

\* The clock moves on between calls.
Tick ==
  /\ \E d \in TickSteps :
       /\ now + d <= MaxClockMinutes * SecondsPerMinute
       /\ now' = now + d
  /\ result' = NoCall
  /\ invoked_in' = NotInvoked
  /\ func_result' = NoCall
  /\ checked_timeout' = None
  /\ status' = NoStatus
  /\ computed' = None
  /\ UNCHANGED <<config, breaker, invocations, consecutive_failures, script_pos, pc>>

----------------------------------------------------------------------------
(* call, one statement group at a time: the check of lines 39-46, the       *)
(* invocation of func at line 49, and its end with the handler that follows *)
(* it (lines 50-54).  Callers are interleaved between these steps.          *)

InCall == {c \in DOMAIN pc : pc[c].at # "idle"}

Enter(c) ==
  /\ pc[c].at = "idle"
  /\ invocations + Cardinality(InCall) < MaxInvocations
  /\ \E reset_timeout \in get_current_recovery_timeout_minutes(consecutive_circuit_breaks) :
       \E message_timeout \in get_current_recovery_timeout_minutes(consecutive_circuit_breaks) :
         /\ checked_timeout' =
              IF state = OPEN /\ last_failure_time # None THEN reset_timeout ELSE None
         /\ IF state = OPEN /\ ~should_attempt_reset(reset_timeout)
              THEN /\ result' = CircuitOpenError(open_error_minutes(message_timeout))
                   /\ UNCHANGED <<state, pc>>
              ELSE /\ result' = NoCall
                   /\ state' = IF state = OPEN THEN attempt_reset_state ELSE state
                   /\ pc' = [pc EXCEPT ![c] = AtAdmitted(state')]
  /\ invoked_in' = NotInvoked
  /\ func_result' = NoCall
  /\ status' = NoStatus
  /\ computed' = None
  /\ UNCHANGED <<config, failure_count, consecutive_circuit_breaks, last_failure_time,
                 now, invocations, consecutive_failures, script_pos>>

Invoke(c) ==
  /\ pc[c].at = "admitted"
  /\ pc' = [pc EXCEPT ![c] = AtRunning(pc[c].state)]
  /\ invocations' = invocations + 1
  /\ invoked_in' = state
  /\ result' = NoCall
  /\ func_result' = NoCall
  /\ checked_timeout' = None
  /\ status' = NoStatus
  /\ computed' = None
  /\ UNCHANGED <<config, breaker, now, consecutive_failures, script_pos>>

Return(c) ==
  /\ pc[c].at = "running"
  /\ \E func \in Funcs :
       IF func.raises
         THEN /\ func_result' = Raised(func.payload)
              /\ SetBreaker(on_failure(state))
              /\ consecutive_failures' = consecutive_failures + 1
              /\ result' = reraise(func.payload)
         ELSE /\ func_result' = Returned(func.payload)
              /\ SetBreaker(on_success)
              /\ consecutive_failures' = 0
              /\ result' = Returned(func.payload)
  /\ pc' = [pc EXCEPT ![c] = AtIdle]
  /\ invoked_in' = pc[c].state
  /\ checked_timeout' = None
  /\ status' = NoStatus
  /\ computed' = None
  /\ UNCHANGED <<config, now, invocations, script_pos>>

----------------------------------------------------------------------------
(* get_status_info *)

\* Python truth of a number or None, as in `... and self.last_failure_time`.
Truthy(x) == x # None /\ x # 0

\* Mutant: the attempt number of the exponential phase is not capped.
get_status_info_uncapped(current_timeout_minutes) ==
  [state |-> state,
   failure_count |-> failure_count,
   consecutive_circuit_breaks |-> consecutive_circuit_breaks,
   retry_phase |->
     IF consecutive_circuit_breaks > 0
       THEN IF consecutive_circuit_breaks <= fixed_interval_retries
              THEN [label |-> "fixed-interval",
                    attempt |-> consecutive_circuit_breaks,
                    of |-> fixed_interval_retries]
              ELSE [label |-> "exponential-interval",
                    attempt |-> consecutive_circuit_breaks - fixed_interval_retries,
                    of |-> max_exponential_retries]
       ELSE [label |-> "closed", attempt |-> None, of |-> None],
   current_recovery_timeout_minutes |-> current_timeout_minutes,
   time_until_retry_minutes |->
     IF state = OPEN /\ Truthy(last_failure_time)
       THEN Max(0, current_timeout_minutes * SecondsPerMinute - (now - last_failure_time))
       ELSE None,
   config |-> <<base_interval_minutes, fixed_interval_retries,
                max_exponential_retries, jitter_enabled>>]

\* The snapshot, given the value the timeout calculation returned to it.
\* time_until_retry_minutes is a fraction of minutes in the code; it is
\* kept here in sixtieths of a minute, so that elapsed_seconds / 60 is exact.
get_status_info(current_timeout_minutes) ==
  [state |-> state,
   failure_count |-> failure_count,
   consecutive_circuit_breaks |-> consecutive_circuit_breaks,
   retry_phase |->
     IF consecutive_circuit_breaks > 0
       THEN IF consecutive_circuit_breaks <= fixed_interval_retries
              THEN [label |-> "fixed-interval",
                    attempt |-> consecutive_circuit_breaks,
                    of |-> fixed_interval_retries]
              ELSE [label |-> "exponential-interval",
                    attempt |-> Min(consecutive_circuit_breaks - fixed_interval_retries,
                                    max_exponential_retries),
                    of |-> max_exponential_retries]
       ELSE [label |-> "closed", attempt |-> None, of |-> None],
   current_recovery_timeout_minutes |-> current_timeout_minutes,
   time_until_retry_minutes |->
     IF state = OPEN /\ Truthy(last_failure_time)
       THEN Max(0, current_timeout_minutes * SecondsPerMinute - (now - last_failure_time))
       ELSE None,
   config |-> <<base_interval_minutes, fixed_interval_retries,
                max_exponential_retries, jitter_enabled>>]

\* Mutant: the snapshot moves an Open breaker to HalfOpen once the timeout
\* has elapsed.
GetStatusTransitions ==
  /\ \E current_timeout_minutes
         \in get_current_recovery_timeout_minutes(consecutive_circuit_breaks) :
       /\ status' = get_status_info(current_timeout_minutes)
       /\ state' = IF state = OPEN /\ should_attempt_reset(current_timeout_minutes)
                     THEN HALF_OPEN ELSE state
  /\ result' = NoCall
  /\ invoked_in' = NotInvoked
  /\ func_result' = NoCall
  /\ checked_timeout' = None
  /\ computed' = None
  /\ UNCHANGED <<config, failure_count, consecutive_circuit_breaks, last_failure_time,
                 now, invocations, consecutive_failures, script_pos, pc>>

GetStatus ==
  /\ \E current_timeout_minutes
         \in get_current_recovery_timeout_minutes(consecutive_circuit_breaks) :
       status' = get_status_info(current_timeout_minutes)
  /\ result' = NoCall
  /\ invoked_in' = NotInvoked
  /\ func_result' = NoCall
  /\ checked_timeout' = None
  /\ computed' = None
  /\ UNCHANGED <<config, breaker, now, invocations, consecutive_failures, script_pos, pc>>

----------------------------------------------------------------------------
(* __init__ *)

InitBreaker ==
  /\ failure_count = 0
  /\ consecutive_circuit_breaks = 0
  /\ last_failure_time = None
  /\ state = CLOSED

NoCallYet ==
  /\ result = NoCall
  /\ invoked_in = NotInvoked
  /\ func_result = NoCall
  /\ checked_timeout = None
  /\ status = NoStatus
  /\ script_pos = 0

Init ==
  /\ failure_threshold \in 1 .. MaxThreshold
  /\ base_interval_minutes \in 0 .. MaxBaseInterval
  /\ fixed_interval_retries \in 0 .. MaxFixedRetries
  /\ max_exponential_retries \in 0 .. MaxExponentialRetries
  /\ jitter_enabled \in BOOLEAN
  /\ InitBreaker
  /\ now = 0
  /\ NoCallYet
  /\ invocations = 0
  /\ consecutive_failures = 0
  /\ computed = None
  /\ pc = Idle(OneCaller)

Next == Call \/ Tick

Spec == Init /\ [][Next]_vars

----------------------------------------------------------------------------
(* The timeout calculation on its own: a breaker that has tripped k times   *)
(* in a row (threshold 1, k failed invocations), whose owner reads the      *)
(* recovery timeout.                                                        *)

GetTimeout ==
  /\ computed' \in get_current_recovery_timeout_minutes(consecutive_circuit_breaks)
  /\ result' = NoCall
  /\ invoked_in' = NotInvoked
  /\ func_result' = NoCall
  /\ checked_timeout' = None
  /\ status' = NoStatus
  /\ UNCHANGED <<config, breaker, now, invocations, consecutive_failures, script_pos, pc>>

InitCalc ==
  /\ failure_threshold = 1
  /\ base_interval_minutes \in 0 .. CalcMaxBaseInterval
  /\ fixed_interval_retries \in 0 .. CalcMaxFixedRetries
  /\ max_exponential_retries \in 0 .. CalcMaxExponentialRetries
  /\ jitter_enabled \in BOOLEAN
  /\ \E k \in 0 .. CalcMaxBreaks :
       /\ consecutive_circuit_breaks = k
       /\ failure_count = k
       /\ consecutive_failures = k
       /\ invocations = k
       /\ state = IF k = 0 THEN CLOSED ELSE OPEN
       /\ last_failure_time = IF k = 0 THEN None ELSE 0
  /\ now = 0
  /\ NoCallYet
  /\ computed = None
  /\ pc = Idle(OneCaller)

NextCalc == GetTimeout

SpecCalc == InitCalc /\ [][NextCalc]_vars

----------------------------------------------------------------------------
(* The timeout calculation of a breaker with the default base interval and  *)
(* without jitter, deep into the exponential phase.                         *)

InitExp ==
  /\ failure_threshold = 1
  /\ base_interval_minutes = DefaultBaseInterval
  /\ fixed_interval_retries \in 0 .. CalcMaxFixedRetries
  /\ max_exponential_retries \in 0 .. ExpMaxExponentialRetries
  /\ jitter_enabled = FALSE
  /\ \E k \in 0 .. CalcMaxBreaks :
       /\ consecutive_circuit_breaks = k
       /\ failure_count = k
       /\ consecutive_failures = k
       /\ invocations = k
       /\ state = IF k = 0 THEN CLOSED ELSE OPEN
       /\ last_failure_time = IF k = 0 THEN None ELSE 0
  /\ now = 0
  /\ NoCallYet
  /\ computed = None
  /\ pc = Idle(OneCaller)

NextExp == GetTimeout

SpecExp == InitExp /\ [][NextExp]_vars

----------------------------------------------------------------------------
(* The breaker with its two read-only operations: the owner may take a      *)
(* status snapshot or read the recovery timeout between calls.  The         *)
(* threshold is the smallest or the largest of the model.                   *)

InitStatus ==
  /\ failure_threshold \in {1, MaxThreshold}
  /\ base_interval_minutes \in 0 .. MaxBaseInterval
  /\ fixed_interval_retries \in 0 .. MaxFixedRetries
  /\ max_exponential_retries \in 0 .. MaxExponentialRetries
  /\ jitter_enabled \in BOOLEAN
  /\ InitBreaker
  /\ now = 0
  /\ NoCallYet
  /\ invocations = 0
  /\ consecutive_failures = 0
  /\ computed = None
  /\ pc = Idle(OneCaller)

NextStatus == Call \/ Tick \/ GetStatus \/ GetTimeout

SpecStatus == InitStatus /\ [][NextStatus]_vars

----------------------------------------------------------------------------
(* The end-to-end scenario: threshold 1, base interval 5, 2 fixed and 2      *)
(* exponential retries, no jitter.  The clock is moved by hand in steps of  *)
(* five minutes and the calls of the scenario are made at their times, the  *)
(* first four with a failing function and the last with a succeeding one.   *)

ScenarioTimes == <<0, 300, 600, 2100, 9600>>
ScenarioFails == <<TRUE, TRUE, TRUE, TRUE, FALSE>>

ScenarioCall ==
  /\ script_pos < Len(ScenarioTimes)
  /\ now = ScenarioTimes[script_pos + 1]
  /\ \E func \in Funcs :
       /\ func.raises = ScenarioFails[script_pos + 1]
       /\ \E reset_timeout \in get_current_recovery_timeout_minutes(consecutive_circuit_breaks) :
            \E message_timeout \in get_current_recovery_timeout_minutes(consecutive_circuit_breaks) :
              call(func, reset_timeout, message_timeout)
  /\ script_pos' = script_pos + 1

ScenarioTick ==
  /\ now < ScenarioTimes[Len(ScenarioTimes)]
  /\ now' = now + 300
  /\ result' = NoCall
  /\ invoked_in' = NotInvoked
  /\ func_result' = NoCall
  /\ checked_timeout' = None
  /\ status' = NoStatus
  /\ computed' = None
  /\ UNCHANGED <<config, breaker, invocations, consecutive_failures, script_pos, pc>>

InitScenario ==
  /\ failure_threshold = 1
  /\ base_interval_minutes = 5
  /\ fixed_interval_retries = 2
  /\ max_exponential_retries = 2
  /\ jitter_enabled = FALSE
  /\ InitBreaker
  /\ now = 0
  /\ NoCallYet
  /\ invocations = 0
  /\ consecutive_failures = 0
  /\ computed = None
  /\ pc = Idle(OneCaller)

NextScenario == ScenarioCall \/ ScenarioTick

SpecScenario == InitScenario /\ [][NextScenario]_vars

----------------------------------------------------------------------------
(* call() in steps: with one caller, as the breaker is meant to be used,    *)
(* and with two callers sharing the breaker without a lock.                 *)

Entering == \E c \in DOMAIN pc : Enter(c)
Invoking == \E c \in DOMAIN pc : Invoke(c)
Returning == \E c \in DOMAIN pc : Return(c)

NextSteps == Entering \/ Invoking \/ Returning \/ Tick

SpecSteps == Init /\ [][NextSteps]_vars

InitTwoCallers ==
  /\ failure_threshold \in 1 .. MaxThreshold
  /\ base_interval_minutes \in 0 .. MaxBaseInterval
  /\ fixed_interval_retries \in 0 .. MaxFixedRetries
  /\ max_exponential_retries \in 0 .. MaxExponentialRetries
  /\ jitter_enabled \in BOOLEAN
  /\ InitBreaker
  /\ now = 0
  /\ NoCallYet
  /\ invocations = 0
  /\ consecutive_failures = 0
  /\ computed = None
  /\ pc = Idle(TwoCallers)

SpecTwoCallers == InitTwoCallers /\ [][NextSteps]_vars

----------------------------------------------------------------------------
(* The breaker under fair scheduling: calls keep being attempted and the    *)
(* clock keeps advancing.  The clock is moved while the breaker is Open and *)
(* some recovery timeout it can draw has not yet elapsed; time that passes  *)
(* beyond that changes nothing in what call() does.  The function fails a   *)
(* bounded number of times: the last invocation the model follows succeeds, *)
(* so from some point on every invoked operation succeeds.                  *)

\* The clock of the fair specification moves five minutes at a time.
LiveTickStep == 300

LiveTick ==
  /\ state = OPEN
  /\ last_failure_time # None
  /\ \E timeout \in get_current_recovery_timeout_minutes(consecutive_circuit_breaks) :
       now - last_failure_time < timeout * SecondsPerMinute
  /\ now' = now + LiveTickStep
  /\ result' = NoCall
  /\ invoked_in' = NotInvoked
  /\ func_result' = NoCall
  /\ checked_timeout' = None
  /\ status' = NoStatus
  /\ computed' = None
  /\ UNCHANGED <<config, breaker, invocations, consecutive_failures, script_pos, pc>>

LiveCall ==
  /\ invocations < MaxInvocations
  /\ \E func \in Funcs :
       /\ func.raises => invocations + 1 < MaxInvocations
       /\ \E reset_timeout \in get_current_recovery_timeout_minutes(consecutive_circuit_breaks) :
            \E message_timeout \in get_current_recovery_timeout_minutes(consecutive_circuit_breaks) :
              call(func, reset_timeout, message_timeout)
  /\ UNCHANGED script_pos

\* The smallest and the largest of each retry setting of the model.
InitLive ==
  /\ failure_threshold \in {1, MaxThreshold}
  /\ base_interval_minutes \in 0 .. MaxBaseInterval
  /\ fixed_interval_retries \in {0, MaxFixedRetries}
  /\ max_exponential_retries \in {0, MaxExponentialRetries}
  /\ jitter_enabled \in BOOLEAN
  /\ InitBreaker
  /\ now = 0
  /\ NoCallYet
  /\ invocations = 0
  /\ consecutive_failures = 0
  /\ computed = None
  /\ pc = Idle(OneCaller)

NextLive == LiveCall \/ LiveTick

SpecLive == InitLive /\ [][NextLive]_vars /\ WF_vars(LiveCall) /\ WF_vars(LiveTick)

----------------------------------------------------------------------------
(* Runs of trials: a breaker without jitter and with threshold 1, whose     *)
(* owner waits until the recovery timeout has elapsed, calls again, and may *)
(* read the recovery timeout in between.                                    *)

\* The clock is moved to the moment the recovery timeout elapses.
TrialTick ==
  /\ state = OPEN
  /\ last_failure_time # None
  /\ \E timeout \in get_current_recovery_timeout_minutes(consecutive_circuit_breaks) :
       /\ now < last_failure_time + timeout * SecondsPerMinute
       /\ now' = last_failure_time + timeout * SecondsPerMinute
  /\ result' = NoCall
  /\ invoked_in' = NotInvoked
  /\ func_result' = NoCall
  /\ checked_timeout' = None
  /\ status' = NoStatus
  /\ computed' = None
  /\ UNCHANGED <<config, breaker, invocations, consecutive_failures, script_pos, pc>>

TrialCall ==
  /\ invocations < CalcMaxBreaks
  /\ \E func \in Funcs :
       \E reset_timeout \in get_current_recovery_timeout_minutes(consecutive_circuit_breaks) :
         \E message_timeout \in get_current_recovery_timeout_minutes(consecutive_circuit_breaks) :
           call(func, reset_timeout, message_timeout)
  /\ UNCHANGED script_pos

InitTrials ==
  /\ failure_threshold = 1
  /\ base_interval_minutes \in 0 .. CalcMaxBaseInterval
  /\ fixed_interval_retries \in 0 .. CalcMaxFixedRetries
  /\ max_exponential_retries \in 0 .. CalcMaxExponentialRetries
  /\ jitter_enabled = FALSE
  /\ InitBreaker
  /\ now = 0
  /\ NoCallYet
  /\ invocations = 0
  /\ consecutive_failures = 0
  /\ computed = None
  /\ pc = Idle(OneCaller)

NextTrials == TrialCall \/ TrialTick \/ GetTimeout

SpecTrials == InitTrials /\ [][NextTrials]_vars

----------------------------------------------------------------------------
(* Properties. *)

\* The timeout the phase law gives for k circuit breaks, without jitter.
PhaseLaw(k) ==
  IF k <= fixed_interval_retries
    THEN base_interval_minutes
    ELSE base_interval_minutes
           * Pow(base_interval_minutes,
                 Min(k - fixed_interval_retries, max_exponential_retries))

\* ceil(0.1 * t) for a natural t.
CeilTenth(t) == (t + 9) \div 10

\* C1: the breaker is Closed exactly while fewer than failure_threshold
\* invocations have failed since the last successful one (or construction),
\* and Open from the failure that reaches the threshold.
C1_OpensAtThreshold ==
  IF consecutive_failures < failure_threshold THEN state = CLOSED ELSE state = OPEN

C1_Witness ==
  /\ failure_threshold = 2
  /\ consecutive_failures = 2
  /\ func_result.kind = "raised"
  /\ invoked_in = CLOSED
  /\ state = OPEN

\* C2: a call made while Open, before the recovery timeout has elapsed since
\* last_failure_time, ends with the circuit-open error and does not invoke
\* the function.
C2_OpenRejects ==
  [][(/\ result' # NoCall
      /\ state = OPEN
      /\ last_failure_time # None
      /\ now - last_failure_time < checked_timeout' * SecondsPerMinute)
     => (/\ IsCircuitOpenError(result')
         /\ func_result' = NoCall
         /\ invocations' = invocations)]_vars

C2_Witness ==
  /\ IsCircuitOpenError(result)
  /\ state = OPEN
  /\ now > last_failure_time
  /\ now - last_failure_time < checked_timeout * SecondsPerMinute

\* C3: after a call whose function was invoked and returned, failure_count
\* and consecutive_circuit_breaks are 0 and the state is Closed, whatever
\* they were before and whether the call started Closed or as a trial.
C3_SuccessResets ==
  func_result.kind = "returned"
    => failure_count = 0 /\ consecutive_circuit_breaks = 0 /\ state = CLOSED

C3_Witness ==
  /\ func_result.kind = "returned"
  /\ invoked_in = HALF_OPEN
  /\ invocations >= 3
  /\ state = CLOSED

\* C4: a failed invocation that brings failure_count to the threshold opens
\* the circuit; consecutive_circuit_breaks becomes 1 when the failure
\* happened in Closed and its previous value plus 1 when in HalfOpen.
C4_BreakCounting ==
  [][(func_result'.kind = "raised" /\ failure_count' >= failure_threshold)
     => (/\ state' = OPEN
         /\ (invoked_in' = CLOSED => consecutive_circuit_breaks' = 1)
         /\ (invoked_in' = HALF_OPEN
               => consecutive_circuit_breaks' = consecutive_circuit_breaks + 1))]_vars

C4_Witness ==
  /\ func_result.kind = "raised"
  /\ invoked_in = HALF_OPEN
  /\ consecutive_circuit_breaks = 3
  /\ state = OPEN

\* C5: without jitter the timeout calculation returns B for k <= F and
\* B * B^min(k - F, M) for k > F.
C5_PhaseLaw ==
  (~jitter_enabled /\ computed # None)
    => computed = PhaseLaw(consecutive_circuit_breaks)

C5_Witness ==
  /\ ~jitter_enabled
  /\ base_interval_minutes = 3
  /\ fixed_interval_retries = 2
  /\ max_exponential_retries = 2
  /\ consecutive_circuit_breaks = 6
  /\ computed = 27

\* C6: a call made while Open, once the time since last_failure_time is the
\* recovery timeout or more, invokes the function in HalfOpen; equality is
\* enough.
C6_ElapsedAdmits ==
  [][(/\ result' # NoCall
      /\ state = OPEN
      /\ last_failure_time # None
      /\ now - last_failure_time >= checked_timeout' * SecondsPerMinute)
     => (/\ invoked_in' = HALF_OPEN
         /\ func_result' # NoCall
         /\ invocations' = invocations + 1)]_vars

C6_Witness ==
  /\ invoked_in = HALF_OPEN
  /\ func_result.kind = "returned"
  /\ checked_timeout >= 1
  /\ now - last_failure_time = checked_timeout * SecondsPerMinute

\* C7: the circuit-open error carries the remaining wait: some recovery
\* timeout of the current state less the time elapsed since
\* last_failure_time, both in minutes.
C7_RemainingWait ==
  IsCircuitOpenError(result)
    => \E timeout \in get_current_recovery_timeout_minutes(consecutive_circuit_breaks) :
         result.minutes * SecondsPerMinute
           = timeout * SecondsPerMinute - (now - last_failure_time)

\* C8: a call returns what the function returned, raises what the function
\* raised, or raises the circuit-open error without having invoked the
\* function.
C8_Outcomes ==
  result # NoCall
    => \/ func_result.kind = "returned" /\ result = func_result
       \/ func_result.kind = "raised" /\ result = func_result
                                      /\ ~IsCircuitOpenError(result)
       \/ func_result = NoCall /\ IsCircuitOpenError(result)

C8_Witness ==
  /\ func_result.kind = "raised"
  /\ result = func_result
  /\ result.payload = "ValueError"
  /\ state = OPEN

\* C9 as stated: with jitter the timeout lies in
\* [max(1, t - ceil(0.1 t)), t + ceil(0.1 t)], t the timeout without jitter.
C9_JitterInterval ==
  (jitter_enabled /\ computed # None)
    => LET t == PhaseLaw(consecutive_circuit_breaks)
       IN  computed \in Max(1, t - CeilTenth(t)) .. (t + CeilTenth(t))

\* C9 amended: the same interval, for a base interval of at least 1.
C9_JitterIntervalPositiveBase ==
  (jitter_enabled /\ computed # None /\ base_interval_minutes >= 1)
    => LET t == PhaseLaw(consecutive_circuit_breaks)
       IN  computed \in Max(1, t - CeilTenth(t)) .. (t + CeilTenth(t))

C9_Witness ==
  /\ jitter_enabled
  /\ base_interval_minutes = 4
  /\ max_exponential_retries = 2
  /\ consecutive_circuit_breaks >= fixed_interval_retries + 2
  /\ computed = 70

\* C10: with a base interval of 0 the timeout is 0, whatever the number of
\* circuit breaks and with or without jitter.
C10_ZeroBase ==
  (base_interval_minutes = 0 /\ computed # None) => computed = 0

\* A step that is a status snapshot or a read of the recovery timeout: no
\* call was made, the clock stood still and a value was handed out.
ReadOnlyStep ==
  /\ result' = NoCall
  /\ now' = now
  /\ status' # NoStatus \/ computed' # None

\* C11: the status snapshot and the recovery-timeout calculation leave
\* state, failure_count, consecutive_circuit_breaks, last_failure_time and
\* the configuration unchanged, however often they are called.
C11_ReadOnly ==
  [][ReadOnlyStep => UNCHANGED <<breaker, config>>]_vars

C11_Witness ==
  /\ status # NoStatus
  /\ state = OPEN
  /\ status.current_recovery_timeout_minutes >= 1
  /\ now - last_failure_time
       >= status.current_recovery_timeout_minutes * SecondsPerMinute

\* C12: the snapshot holds a remaining time exactly when the state is Open
\* and a last failure time has been recorded, whatever its value, and then
\* it is max(0, recovery timeout - time elapsed since last_failure_time).
C12_RemainingTime ==
  status # NoStatus
    => IF state = OPEN /\ last_failure_time # None
         THEN status.time_until_retry_minutes
                = Max(0, status.current_recovery_timeout_minutes * SecondsPerMinute
                           - (now - last_failure_time))
         ELSE status.time_until_retry_minutes = None

\* C13: the retry phase of the snapshot is 'closed' for 0 circuit breaks,
\* 'fixed-interval' with attempt k of F for 1 <= k <= F, and
\* 'exponential-interval' with attempt min(k - F, M) of M otherwise; the
\* attempt never exceeds its maximum.
C13_PhaseLabel ==
  status # NoStatus
    => LET k == consecutive_circuit_breaks
           phase == status.retry_phase
       IN  IF k = 0
             THEN phase.label = "closed"
             ELSE /\ phase.attempt <= phase.of
                  /\ IF k <= fixed_interval_retries
                       THEN /\ phase.label = "fixed-interval"
                            /\ phase.attempt >= 1
                            /\ phase.attempt = k
                            /\ phase.of = fixed_interval_retries
                       ELSE /\ phase.label = "exponential-interval"
                            /\ phase.attempt
                                 = IF k - fixed_interval_retries <= max_exponential_retries
                                     THEN k - fixed_interval_retries
                                     ELSE max_exponential_retries
                            /\ phase.of = max_exponential_retries

C13_Witness ==
  /\ status # NoStatus
  /\ max_exponential_retries = 1
  /\ consecutive_circuit_breaks - fixed_interval_retries >= 2
  /\ status.retry_phase.label = "exponential-interval"
  /\ status.retry_phase.attempt = 1

\* C14: in the end-to-end scenario the failing calls at 0, 300, 600 and 2100
\* seconds are admitted and leave 1, 2, 3 and 4 consecutive circuit breaks
\* with recovery timeouts of 5, 5, 25 and 125 minutes, and the succeeding
\* call at 9600 seconds is admitted and closes the circuit with both
\* counters at 0.
C14_EndToEnd ==
  (script_pos >= 1 /\ result # NoCall)
    => IF script_pos <= 4
         THEN /\ func_result.kind = "raised"
              /\ result = func_result
              /\ consecutive_circuit_breaks = script_pos
              /\ get_current_recovery_timeout_minutes(consecutive_circuit_breaks)
                   = {<<5, 5, 25, 125>>[script_pos]}
         ELSE /\ func_result.kind = "returned"
              /\ result = func_result
              /\ failure_count = 0
              /\ consecutive_circuit_breaks = 0
              /\ state = CLOSED

C14_Witness ==
  /\ script_pos = 5
  /\ now = 9600
  /\ invocations = 5
  /\ func_result.kind = "returned"
  /\ state = CLOSED

\* The exponential attempt of the current state: k - F, capped at M.
ExponentialAttempt ==
  Min(consecutive_circuit_breaks - fixed_interval_retries, max_exponential_retries)

\* The states C15 is about: base interval 5, no jitter, a cap of at least 4
\* and an exponential attempt from 1 to 4.
C15_Case ==
  /\ computed # None
  /\ base_interval_minutes = 5
  /\ ~jitter_enabled
  /\ max_exponential_retries >= 4
  /\ consecutive_circuit_breaks > fixed_interval_retries
  /\ ExponentialAttempt \in 1 .. 4

\* C15 as stated: the recovery timeout is 5, 25, 125 and 625 minutes for
\* exponential attempts 1, 2, 3 and 4.
C15_ExponentialTimeouts ==
  C15_Case => computed = <<5, 25, 125, 625>>[ExponentialAttempt]

\* C15 amended: the recovery timeout is 25, 125, 625 and 3125 minutes for
\* exponential attempts 1, 2, 3 and 4.
C15_ExponentialTimeoutsTimesBase ==
  C15_Case => computed = <<25, 125, 625, 3125>>[ExponentialAttempt]

C15_Witness ==
  /\ C15_Case
  /\ ExponentialAttempt = 4
  /\ computed = 3125

\* The callers whose invocation of func is in flight and who passed the
\* check with the breaker HalfOpen: the trial invocations.
TrialsInFlight ==
  {c \in DOMAIN pc : pc[c].at = "running" /\ pc[c].state = HALF_OPEN}

\* C16: with several callers on one breaker, at most one trial invocation
\* of func is in flight while the breaker is HalfOpen.
C16_OneTrial ==
  state = HALF_OPEN => Cardinality(TrialsInFlight) <= 1

\* C17: a call rejected with the circuit-open error leaves state (Open),
\* failure_count, consecutive_circuit_breaks and last_failure_time as they
\* were.
C17_RejectionFrame ==
  [][IsCircuitOpenError(result') => (state = OPEN /\ UNCHANGED breaker)]_vars

C17_Witness ==
  /\ IsCircuitOpenError(result)
  /\ state = OPEN
  /\ failure_count > failure_threshold
  /\ consecutive_circuit_breaks = 2
  /\ now - last_failure_time >= 2 * SecondsPerMinute

\* C18: the state changes only from Closed to Open (a failure that reaches
\* the threshold), from Open to HalfOpen (a call attempt after the timeout),
\* from HalfOpen to Closed (the trial returned) and from HalfOpen to Open
\* (the trial raised).
C18_Transitions ==
  [][\/ state' = state
     \/ /\ state = CLOSED /\ state' = OPEN
        /\ func_result'.kind = "raised"
        /\ failure_count' >= failure_threshold
     \/ /\ state = OPEN /\ state' = HALF_OPEN
        /\ now - last_failure_time >= checked_timeout' * SecondsPerMinute
     \/ /\ state = HALF_OPEN /\ state' = CLOSED
        /\ func_result'.kind = "returned"
     \/ /\ state = HALF_OPEN /\ state' = OPEN
        /\ func_result'.kind = "raised"]_vars

C18_Witness ==
  /\ state = CLOSED
  /\ invoked_in = HALF_OPEN
  /\ func_result.kind = "returned"
  /\ invocations >= 2

\* C19: whenever the breaker is HalfOpen, failure_count is at least the
\* threshold, and when no call is under way the state is Closed or Open.
C19_OneTrialDecides ==
  /\ state = HALF_OPEN => failure_count >= failure_threshold
  /\ InCall = {} => state \in {CLOSED, OPEN}

C19_Witness ==
  /\ state = HALF_OPEN
  /\ failure_threshold = 2
  /\ \E c \in DOMAIN pc : pc[c].at = "running"

\* A step in which func, invoked by caller c, raised.
FailedInvocation ==
  \E c \in DOMAIN pc :
    pc[c].at = "running" /\ pc'[c].at = "idle" /\ func_result'.kind = "raised"

\* C20: failure_count is the number of invocations that failed since the
\* last successful one; each failed invocation adds 1 to it and sets
\* last_failure_time to the current time, and the step from Open to
\* HalfOpen changes neither counter nor last_failure_time.
C20_FailureCount ==
  /\ [](failure_count = consecutive_failures)
  /\ [][/\ FailedInvocation
           => (failure_count' = failure_count + 1 /\ last_failure_time' = now)
        /\ (state = OPEN /\ state' = HALF_OPEN)
           => UNCHANGED <<failure_count, consecutive_circuit_breaks,
                          last_failure_time>>]_vars

C20_Witness ==
  /\ failure_threshold = 2
  /\ state = CLOSED
  /\ func_result.kind = "raised"
  /\ failure_count = 1
  /\ last_failure_time = now
  /\ now > 0

\* The largest recovery timeout the phase law allows: B * B^M.
MaxPhaseLawTimeout ==
  base_interval_minutes * Pow(base_interval_minutes, max_exponential_retries)

\* The operation was invoked in this step.
Admitted == func_result # NoCall

\* Full recovery: Closed with both counters at 0.
Recovered == state = CLOSED /\ failure_count = 0 /\ consecutive_circuit_breaks = 0

\* C21 as stated: with the clock advancing and calls being attempted, an
\* Open breaker eventually admits a call to the operation, every recovery
\* timeout it waits for being at most B * B^M; and with the operation
\* succeeding from some point on, the breaker eventually is Closed with both
\* counters at 0.
C21_NoTerminalState ==
  /\ (state = OPEN) ~> Admitted
  /\ (state = OPEN) ~> Recovered
  /\ [](checked_timeout # None => checked_timeout <= MaxPhaseLawTimeout)

\* C21 amended: the same, the recovery timeout being at most B * B^M without
\* jitter and at most B * B^M plus the jitter range of B * B^M with jitter.
C21_NoTerminalStateJitterBound ==
  /\ (state = OPEN) ~> Admitted
  /\ (state = OPEN) ~> Recovered
  /\ [](checked_timeout # None
          => checked_timeout
               <= IF jitter_enabled
                    THEN MaxPhaseLawTimeout + Max(1, MaxPhaseLawTimeout \div 10)
                    ELSE MaxPhaseLawTimeout)

C21_Witness ==
  /\ base_interval_minutes = 2
  /\ max_exponential_retries = 1
  /\ jitter_enabled
  /\ invoked_in = HALF_OPEN
  /\ func_result.kind = "returned"
  /\ checked_timeout = 5
  /\ Recovered

\* C22: with jitter enabled the values the timeout calculation can return
\* with k circuit breaks, k = 0 included, are exactly max(1, t + j) for the
\* integers j from -r to r, where t is the timeout without jitter and
\* r = max(1, ceil(0.1 t)).
C22_JitterValues ==
  (jitter_enabled /\ computed # None)
    => LET t == PhaseLaw(consecutive_circuit_breaks)
           r == Max(1, CeilTenth(t))
       IN  get_current_recovery_timeout_minutes(consecutive_circuit_breaks)
             = {Max(1, t + j) : j \in (0 - r) .. r}

\* C23: after any sequence of calls, a Closed breaker has no consecutive
\* circuit breaks and a failure_count below the threshold, and an Open
\* breaker has at least one consecutive circuit break, a failure_count of
\* at least the threshold and a recorded last_failure_time.
C23_ClosedOpenInvariants ==
  /\ state = CLOSED
       => consecutive_circuit_breaks = 0 /\ failure_count < failure_threshold
  /\ state = OPEN
       => /\ consecutive_circuit_breaks >= 1
          /\ failure_count >= failure_threshold
          /\ last_failure_time # None

C23_Witness ==
  /\ failure_threshold = 2
  /\ state = OPEN
  /\ invoked_in = HALF_OPEN
  /\ func_result.kind = "raised"
  /\ failure_count = 3
  /\ consecutive_circuit_breaks = 2
  /\ last_failure_time = now

\* A step in which a trial invocation failed.
FailedTrial == invoked_in' = HALF_OPEN /\ func_result'.kind = "raised"

\* C24: without jitter and with a base interval of at least 1, the recovery
\* timeout for k circuit breaks is at most the one for k + 1 and at most
\* B * B^M, and after a failed trial the recovery timeout is at least what
\* it was before the trial.
C24_MonotoneTimeout ==
  /\ []((~jitter_enabled /\ base_interval_minutes >= 1 /\ computed # None)
          => /\ computed <= MaxPhaseLawTimeout
             /\ \A later \in get_current_recovery_timeout_minutes(
                               consecutive_circuit_breaks + 1) :
                  computed <= later)
  /\ [][(~jitter_enabled /\ base_interval_minutes >= 1 /\ FailedTrial)
          => \A before \in get_current_recovery_timeout_minutes(
                             consecutive_circuit_breaks) :
               \A after \in get_current_recovery_timeout_minutes(
                              consecutive_circuit_breaks') :
                 before <= after]_vars

C24_Witness ==
  /\ ~jitter_enabled
  /\ base_interval_minutes = 3
  /\ fixed_interval_retries = 1
  /\ max_exponential_retries = 2
  /\ invoked_in = HALF_OPEN
  /\ func_result.kind = "raised"
  /\ consecutive_circuit_breaks = 4
  /\ get_current_recovery_timeout_minutes(consecutive_circuit_breaks) = {27}

=============================================================================
